---- MODULE Spec2Model ----
(***************************************************************************)
(* Model of scripts/create_filtered_ifg_stack.py: the filtered             *)
(* interferogram stack generator.  One run of the script is a sequential   *)
(* process: main() (lines 56-317) wrapped by the __main__ block            *)
(* (lines 320-331).  External collaborators (filter_ifgs, dataset_exists,  *)
(* the four GIAnT stages, the file system) answer nondeterministically.    *)
(***************************************************************************)
EXTENDS Integers, Sequences, FiniteSets, TLC

VARIABLES
    pc,             \* position of the run in main() / the __main__ wrapper
    input_json,     \* the loaded request (line 67), NoReq before loading
    products,       \* input_json['products'] (line 74)
    filt_info,      \* result of filter_ifgs (line 118)
    ifg_list,       \* sorted(ifg_info) (line 141)
    platform,       \* list(platform) (line 161)
    id,             \* the product ID (line 189)
    answer,         \* what dataset_exists answered (line 196)
    queries,        \* number of catalog existence queries issued
    cwd_files,      \* files the run has put in the working directory
    written,        \* every file the run has written into the working directory
    stack_files,    \* contents of Stack/ in the working directory
    png_files,      \* contents of Figs/Igrams/ in the working directory
    invoked,        \* the stages invoked so far, in order (check_call calls)
    statuses,       \* the statuses the invoked stages returned, in order
    timesteps,      \* timesteps extracted from PROC-STACK.h5 (line 244)
    met,            \* the met json written into the product directory (line 303)
    stale_dir,      \* a directory named after the identity exists beforehand
    made_dirs,      \* names of the directories created by os.makedirs (line 248)
    prod_dir,       \* contents of the product directory
    todo,           \* what is left of the loop the run is in
    removed,        \* input product directories and symlinks deleted so far
    exc,            \* the exception in flight, NoExc when none
    exc_at,         \* the step that raised it
    alt_files,      \* the error files written by the wrapper, in order
    exit_status,    \* process exit status, Running until the process ends
    id2,            \* the product ID derived by a second, restarted process
    aux,            \* what lines 200-218 wrote into the files for the stages
    hashed,         \* the bytes fed to the md5 object m (lines 169-185)
    second          \* request and hashed bytes of a second run to compare with

vars == <<pc, input_json, products, filt_info, ifg_list, platform, id, answer,
          queries, cwd_files, written, stack_files, png_files, invoked,
          statuses, timesteps, met, stale_dir, made_dirs, prod_dir, todo, removed,
          exc, exc_at, alt_files, exit_status, id2, aux, hashed, second>>

(***************************************************************************)
(* Bounds of the model.                                                    *)
(***************************************************************************)
MaxKeys == 2        \* number of candidate date-pair keys
MaxProducts == 2    \* number of input product directories in a request

(***************************************************************************)
(* Text.  A string is a sequence of one-character strings.                 *)
(***************************************************************************)
Alphabet == <<"0", "1", "2", "3", "4", "5", "6", "7", "8", "9", " ", "S", "A",
              "B", "T", "r", "u", "e", "F", "a", "l", "s", "d", "_", "N", "o",
              "n">>

Code(c) == CHOOSE i \in 1..Len(Alphabet) : Alphabet[i] = c

Digit(n) == Alphabet[n + 1]

\* "{}".format(n) of a non-negative integer: its decimal digits
RECURSIVE Str(_)
Str(n) == IF n < 10 THEN <<Digit(n)>> ELSE Str(n \div 10) \o <<Digit(n % 10)>>

\* "{}".format(b) of a Python bool
StrBool(b) == IF b THEN <<"T", "r", "u", "e">> ELSE <<"F", "a", "l", "s", "e">>

\* " ".join(list)
RECURSIVE Join(_)
Join(l) == IF Len(l) = 0 THEN <<>>
           ELSE IF Len(l) = 1 THEN l[1]
           ELSE l[1] \o <<" ">> \o Join(Tail(l))

\* lexicographic order of strings, as Python compares str
RECURSIVE StrLess(_, _)
StrLess(a, b) ==
    IF Len(b) = 0 THEN FALSE
    ELSE IF Len(a) = 0 THEN TRUE
    ELSE IF a[1] # b[1] THEN Code(a[1]) < Code(b[1])
    ELSE StrLess(Tail(a), Tail(b))

StrLeq(a, b) == a = b \/ StrLess(a, b)

\* sorted(ifg_info): insertion of each key into an ascending list of strings
RECURSIVE InsertStr(_, _)
InsertStr(x, l) ==
    IF Len(l) = 0 THEN <<x>>
    ELSE IF StrLeq(x, l[1]) THEN <<x>> \o l
    ELSE <<l[1]>> \o InsertStr(x, Tail(l))

RECURSIVE SortedStr(_)
SortedStr(l) == IF Len(l) = 0 THEN <<>> ELSE InsertStr(l[1], SortedStr(Tail(l)))

\* center_lines_utc.sort(): ascending list of times
RECURSIVE InsertTime(_, _)
InsertTime(x, l) ==
    IF Len(l) = 0 THEN <<x>>
    ELSE IF x <= l[1] THEN <<x>> \o l
    ELSE <<l[1]>> \o InsertTime(x, Tail(l))

\* mutant of SortedTime: the list is left as the filter returned it
SortedTime_unsorted(l) == l

RECURSIVE SortedTime(_)
SortedTime(l) == IF Len(l) = 0 THEN <<>> ELSE InsertTime(l[1], SortedTime(Tail(l)))

\* every enumeration order of a finite set
Perms(S) == {p \in [1..Cardinality(S) -> S] : \A x \in S : \E i \in DOMAIN p : p[i] = x}

Range(l) == {l[i] : i \in DOMAIN l}

SetToSeq(S) == CHOOSE p \in Perms(S) : TRUE

Reverse(l) == [i \in 1..Len(l) |-> l[Len(l) + 1 - i]]

IsDigit(c) == c \in {"0", "1", "2", "3", "4", "5", "6", "7", "8", "9"}

\* int(text) of a string of decimal digits
RECURSIVE int(_)
int(t) == IF Len(t) = 0 THEN 0
          ELSE 10 * int(SubSeq(t, 1, Len(t) - 1)) + (Code(t[Len(t)]) - 1)

(***************************************************************************)
(* Constants of the script.                                                *)
(***************************************************************************)
\* the literal text of ID_TMPL before {sensor} (line 36)
ID_PREFIX == <<"f", "i", "l", "t", "e", "r", "e", "d", "-", "i", "f", "g", "-",
               "s", "t", "a", "c", "k", "_">>

DATASET_VERSION == <<"v", "0", ".", "1">>

\* TN_RE = r'_TN(\d+)_' (line 37): TN_RE.search(s) is the leftmost position
\* where "_TN", a maximal run of digits and "_" follow each other; the
\* result is group(1), the digits, or NoMatch
NoMatch == <<"None">>

DigitRunEnd(s, i) ==
    CHOOSE j \in i..(Len(s) + 1) :
        /\ \A m \in i..(j - 1) : IsDigit(s[m])
        /\ j = Len(s) + 1 \/ ~IsDigit(s[j])

TNMatchAt(s, i) ==
    /\ i + 4 <= Len(s)
    /\ SubSeq(s, i, i + 2) = <<"_", "T", "N">>
    /\ IsDigit(s[i + 3])
    /\ DigitRunEnd(s, i + 3) <= Len(s)
    /\ s[DigitRunEnd(s, i + 3)] = "_"

TN_RE(s) ==
    LET hits == {i \in 1..Len(s) : TNMatchAt(s, i)}
    IN  IF hits = {} THEN NoMatch
        ELSE LET i == CHOOSE h \in hits : \A g \in hits : h <= g
             IN  SubSeq(s, i + 3, DigitRunEnd(s, i + 3) - 1)

(***************************************************************************)
(* Inputs: requests and what the filter collaborator may return.           *)
(***************************************************************************)
NoReq == [project |-> "none"]

ProductDir(n) == <<"P">> \o Str(n)

\* the request files a run may be given (input_json, lines 66-115)
Requests ==
    {[project |-> "proj",
      products |-> [i \in 1..n |-> ProductDir(i)],
      region_of_interest |-> roi,
      ref_point |-> <<3, 4>>,
      ref_box_num_pixels |-> <<5, 5>>,
      coverage_threshold |-> 9,
      coherence_threshold |-> 3,
      range_pixel_size |-> 7,
      azimuth_pixel_size |-> 8,
      inc |-> 34,
      filt |-> 1,
      netramp |-> TRUE,
      gpsramp |-> FALSE,
      subswath |-> <<1>>] : n \in 1..MaxProducts, roi \in {<<>>, <<1, 2, 5, 6>>}}

\* get_envelope(products) (line 82): min_lon, max_lon, min_lat, max_lat
get_envelope(prods) == <<5, 5 + Len(prods), 1, 2>>

Keys == 1..MaxKeys

\* the date-pair key of candidate k, e.g. "1_2"
KeyText(k) == Str(k) \o <<"_">> \o Str(k + 1)

\* center-line acquisition time of candidate k, in half seconds
CenterLine(k) == k

NoneP == [kind |-> "none"]

\* the 'platform' field of a record: None, a string, or a list of strings
PlatformChoices == {NoneP,
                    [kind |-> "str", v |-> <<"S", "1", "A">>],
                    [kind |-> "list", v |-> <<<<"S", "1", "B">>>>]}

\* the 'product' field: a product name, with or without a track number in it
ProductName(k, tn) ==
    IF tn THEN <<"S", "1", "_", "T", "N", "0", "4", "2", "_">> \o Str(k)
    ELSE <<"S", "1", "_">> \o Str(k)

IfgRecord(k, p, tn) ==
    [product |-> ProductName(k, tn), sensor |-> <<"S", "1">>, platform |-> p,
     center_line_utc |-> CenterLine(k)]

KeyOf(kt) == CHOOSE k \in Keys : KeyText(k) = kt

\* every result filter_ifgs may return (line 118), the empty one included
FiltResults ==
    UNION {
        {[ifg_info |-> [kt \in {KeyText(k) : k \in K} |->
                            IfgRecord(KeyOf(kt), plat[KeyOf(kt)], tn)],
          center_lines_utc |-> c] :
              plat \in [K -> PlatformChoices], tn \in BOOLEAN,
              c \in LET asc == SortedTime([i \in 1..Cardinality(K) |->
                                                CenterLine(SetToSeq(K)[i])])
                     IN  {asc, Reverse(asc)}}
        : K \in SUBSET Keys}

NoFilt == [ifg_info |-> <<>>, center_lines_utc |-> <<>>]

(***************************************************************************)
(* Identity of the product (lines 141-193).                                *)
(***************************************************************************)
\* lines 77-83: the region of interest, or the envelope of the products
Envelope(req) ==
    IF req.region_of_interest # <<>>
    THEN LET r == req.region_of_interest
         IN  [min_lat |-> r[1], max_lat |-> r[2], min_lon |-> r[3], max_lon |-> r[4]]
    ELSE LET e == get_envelope(req.products)
         IN  [min_lon |-> e[1], max_lon |-> e[2], min_lat |-> e[3], max_lat |-> e[4]]

\* line 144: TN_RE.search(...).group(1) of the first record's product name
TrackText(info, l) == TN_RE(info[l[1]].product)

\* lines 154-160: the union of the platforms of all the records
RECURSIVE PlatformUnion(_, _)
PlatformUnion(info, l) ==
    IF Len(l) = 0 THEN {}
    ELSE LET p == info[l[Len(l)]].platform
             rest == PlatformUnion(info, SubSeq(l, 1, Len(l) - 1))
         IN  IF p.kind = "none" THEN rest
             ELSE IF p.kind = "list" THEN rest \cup Range(p.v)
             ELSE rest \cup {p.v}

\* line 161: list(platform) enumerates the set in the order of the string
\* hashes of this process, which change from one process to the next
PlatformLists(info, l) == Perms(PlatformUnion(info, l))

\* lines 171-184: the bytes fed to the digest, update by update
HashInput(req, track, sensor, plat, l) ==
    LET e == Envelope(req)
    IN  Str(e.min_lon) \o <<" ">> \o Str(e.max_lon) \o <<" ">> \o Str(e.min_lat)
            \o <<" ">> \o Str(e.max_lat)
        \o Str(req.ref_point[1]) \o <<" ">> \o Str(req.ref_point[2])
        \o Str(req.ref_box_num_pixels[1]) \o <<" ">> \o Str(req.ref_box_num_pixels[2])
        \o Str(req.coherence_threshold)
        \o Str(req.range_pixel_size)
        \o Str(req.azimuth_pixel_size)
        \o Str(req.inc)
        \o StrBool(req.netramp)
        \o StrBool(req.gpsramp)
        \o Str(req.filt)
        \o Str(track)
        \o sensor
        \o Join(plat)
        \o Join(l)

\* hashlib md5 (line 170), abstracted to a 20-bit polynomial hash of the bytes:
\* a deterministic function of the byte string that depends on byte order
RECURSIVE Digest(_)
Digest(bytes) ==
    IF Len(bytes) = 0 THEN 7
    ELSE (31 * Digest(SubSeq(bytes, 1, Len(bytes) - 1)) + Code(bytes[Len(bytes)]))
             % 1048576

HexDigits == <<"0", "1", "2", "3", "4", "5", "6", "7", "8", "9", "a", "b", "c",
               "d", "e", "f">>

\* m.hexdigest()[0:5] (line 185)
Hexdigest5(bytes) ==
    LET d == Digest(bytes)
    IN  <<HexDigits[((d \div 65536) % 16) + 1], HexDigits[((d \div 4096) % 16) + 1],
          HexDigits[((d \div 256) % 16) + 1], HexDigits[((d \div 16) % 16) + 1],
          HexDigits[(d % 16) + 1]>>

\* strftime('%Y%m%dT%H%M%S') (lines 190-191): the time to second precision,
\* in a fixed width; times are in half seconds
Strftime(t) ==
    LET sec == t \div 2
    IN  <<"T">> \o (IF sec < 10 THEN <<"0">> ELSE <<>>) \o Str(sec)

\* ID_TMPL.format(...) (lines 36, 189-192)
FormatId(sensor, track, startdt, enddt, hash, version) ==
    ID_PREFIX \o sensor \o <<"-", "T", "N">> \o Str(track) \o <<"-">> \o startdt
        \o <<"Z", "-">> \o enddt \o <<"Z", "-">> \o hash \o <<"-">> \o version

\* lines 169-192: the product ID from the request, the filter result (its
\* center lines sorted, line 188), the key list and the platform list
ProductId(req, finfo, l, plat) ==
    LET info == finfo.ifg_info
        track == int(TrackText(info, l))
        sensor == info[l[1]].sensor
        cl == SortedTime(finfo.center_lines_utc)
    IN  FormatId(sensor, track, Strftime(cl[1]), Strftime(cl[Len(cl)]),
                 Hexdigest5(HashInput(req, track, sensor, plat, l)),
                 DATASET_VERSION)

\* lines 144-184: what main() has fed to m when the digest is taken
Hashed(req, finfo, l, plat) ==
    LET info == finfo.ifg_info
    IN  HashInput(req, int(TrackText(info, l)), info[l[1]].sensor, plat, l)

(***************************************************************************)
(* The run.                                                                *)
(***************************************************************************)
NoId == <<>>
NoExc == "none"
NoMet == [ifg_count |-> 0, ifgs |-> <<>>, timestep_count |-> 0, timesteps |-> <<>>]
Running == <<>>

\* nothing rendered yet: no line in ifg.list, no template written
NoAux == [ifg_list |-> <<>>, example_rsc |-> <<>>, prepdataxml |-> <<>>,
          prepsbasxml |-> <<>>]

\* no second run
NoSecond == [input_json |-> NoReq, hashed |-> <<>>]

Init ==
    /\ pc = "load"
    /\ input_json = NoReq
    /\ products = <<>>
    /\ filt_info = NoFilt
    /\ ifg_list = <<>>
    /\ platform = <<>>
    /\ id = NoId
    /\ answer = "unasked"
    /\ queries = 0
    /\ cwd_files = {}
    /\ written = {}
    /\ stack_files = {}
    /\ png_files = {}
    /\ invoked = <<>>
    /\ statuses = <<>>
    /\ timesteps = <<>>
    /\ met = NoMet
    /\ stale_dir \in BOOLEAN
    /\ made_dirs = {}
    /\ prod_dir = {}
    /\ todo = <<>>
    /\ removed = {}
    /\ exc = NoExc
    /\ exc_at = "none"
    /\ alt_files = <<>>
    /\ exit_status = Running
    /\ id2 = NoId
    /\ aux = NoAux
    /\ hashed = <<>>
    /\ second = NoSecond

\* an exception leaves main() for the except clause of the wrapper (line 325)
Raise(kind) ==
    /\ pc' = "except"
    /\ exc' = kind
    /\ exc_at' = pc

NoRaise == UNCHANGED <<exc, exc_at>>

\* lines 63-115: read the request file
LoadRequest ==
    /\ pc = "load"
    /\ \/ /\ Raise("RuntimeError")          \* line 65: the file does not exist
          /\ UNCHANGED <<input_json, products>>
       \/ \E req \in Requests :
              /\ input_json' = req
              /\ products' = req.products
              /\ pc' = "filter"
              /\ NoRaise
    /\ UNCHANGED <<filt_info, ifg_list, platform, id, answer, queries, cwd_files,
                   written, stack_files, png_files, invoked, statuses, timesteps,
                   met, stale_dir, made_dirs, prod_dir, todo, removed, alt_files,
                   exit_status, id2,
                   aux, hashed, second>>

\* lines 118-121: the filter collaborator returns a result, or raises
FilterIfgs ==
    /\ pc = "filter"
    /\ \/ /\ Raise("FilterError")
          /\ UNCHANGED filt_info
       \/ \E r \in FiltResults :
              /\ filt_info' = r
              /\ pc' = "dump"
              /\ NoRaise
    /\ UNCHANGED <<input_json, products, ifg_list, platform, id, answer, queries,
                   cwd_files, written, stack_files, png_files, invoked, statuses,
                   timesteps, met, stale_dir, made_dirs, prod_dir, todo, removed,
                   alt_files, exit_status, id2,
                   aux, hashed, second>>

\* mutant of DumpFiltInfo: the snapshot is not written
DumpFiltInfo_skipped ==
    /\ pc = "dump"
    /\ pc' = "check_empty"
    /\ UNCHANGED <<input_json, products, filt_info, ifg_list, platform, id, answer,
                   queries, cwd_files, written, stack_files, png_files, invoked,
                   statuses, timesteps, met, stale_dir, made_dirs, prod_dir, todo,
                   removed, exc, exc_at, alt_files, exit_status, id2,
                   aux, hashed, second>>

\* lines 124-125: pickle the filter result into filt_info.pkl
DumpFiltInfo ==
    /\ pc = "dump"
    /\ cwd_files' = cwd_files \cup {"filt_info.pkl"}
    /\ written' = written \cup {"filt_info.pkl"}
    /\ pc' = "check_empty"
    /\ NoRaise
    /\ UNCHANGED <<input_json, products, filt_info, ifg_list, platform, id, answer,
                   queries, stack_files, png_files, invoked, statuses, timesteps,
                   met, stale_dir, made_dirs, prod_dir, todo, removed, alt_files,
                   exit_status, id2,
                   aux, hashed, second>>

\* mutant of AllFilteredOut: the emptiness test is gone
AllFilteredOut_unchecked(info) == FALSE

\* line 137: len(ifg_info) == 0
AllFilteredOut(info) == Cardinality(DOMAIN info) = 0

\* lines 137-138: croak when no product passed the filters
CheckEmpty ==
    /\ pc = "check_empty"
    /\ IF AllFilteredOut(filt_info.ifg_info)
       THEN Raise("RuntimeError")
       ELSE pc' = "sort_keys" /\ NoRaise
    /\ UNCHANGED <<input_json, products, filt_info, ifg_list, platform, id, answer,
                   queries, cwd_files, written, stack_files, png_files, invoked,
                   statuses, timesteps, met, stale_dir, made_dirs, prod_dir, todo,
                   removed, alt_files, exit_status, id2,
                   aux, hashed, second>>

\* lines 141-151: the sorted key list; the track number of the first record
\* (ifg_list[0] raises IndexError on an empty list), an AttributeError when
\* its product name holds no track number
SortKeys ==
    /\ pc = "sort_keys"
    /\ \E enum \in Perms(DOMAIN filt_info.ifg_info) :
           LET l == SortedStr(enum)
           IN  /\ ifg_list' = l
               /\ IF Len(l) = 0
                  THEN Raise("IndexError")
                  ELSE IF TrackText(filt_info.ifg_info, l) = NoMatch
                  THEN Raise("AttributeError")
                  ELSE pc' = "derive_id" /\ NoRaise
    /\ UNCHANGED <<input_json, products, filt_info, platform, id, answer, queries,
                   cwd_files, written, stack_files, png_files, invoked, statuses,
                   timesteps, met, stale_dir, made_dirs, prod_dir, todo, removed,
                   alt_files, exit_status, id2,
                   aux, hashed, second>>

\* mutant of DeriveIdentity: main() goes on to the rendering without the gate
DeriveIdentity_ungated ==
    /\ pc = "derive_id"
    /\ \E plat \in PlatformLists(filt_info.ifg_info, ifg_list) :
           /\ platform' = plat
           /\ id' = ProductId(input_json, filt_info, ifg_list, plat)
           /\ hashed' = Hashed(input_json, filt_info, ifg_list, plat)
    /\ filt_info' = [filt_info EXCEPT
                        !.center_lines_utc = SortedTime(filt_info.center_lines_utc)]
    /\ pc' = "write_aux"
    /\ NoRaise
    /\ UNCHANGED <<input_json, products, ifg_list, answer, queries, cwd_files,
                   written, stack_files, png_files, invoked, statuses, timesteps,
                   met, stale_dir, made_dirs, prod_dir, todo, removed, alt_files,
                   exit_status, id2,
                   aux, second>>

\* lines 153-193: the platform list, the hash, the sorted center lines, the ID
DeriveIdentity ==
    /\ pc = "derive_id"
    /\ \E plat \in PlatformLists(filt_info.ifg_info, ifg_list) :
           /\ platform' = plat
           /\ id' = ProductId(input_json, filt_info, ifg_list, plat)
           /\ hashed' = Hashed(input_json, filt_info, ifg_list, plat)
    /\ filt_info' = [filt_info EXCEPT
                        !.center_lines_utc = SortedTime(filt_info.center_lines_utc)]
    /\ pc' = "query"
    /\ NoRaise
    /\ UNCHANGED <<input_json, products, ifg_list, answer, queries, cwd_files,
                   written, stack_files, png_files, invoked, statuses, timesteps,
                   met, stale_dir, made_dirs, prod_dir, todo, removed, alt_files,
                   exit_status, id2,
                   aux, second>>

\* what the catalog can be when it is asked about an identity
CatalogStates == {"exists", "absent", "unavailable"}

\* giant_time_series.utils.dataset_exists: true when the catalog holds the
\* identity, false when it does not and when it cannot be reached (an
\* unreachable catalog is not distinguished from absence)
dataset_exists(catalog) == catalog = "exists"

\* mutant of Exists: any answer, a false one included, counts as 'exists'
Exists_always(a) == TRUE

\* mutant of Exists: the answer of the catalog is ignored
Exists_ignored(a) == FALSE

\* line 196: the branch taken on what dataset_exists returned
Exists(a) == a

\* mutant of ExceptException: a bare except clause
ExceptException_bare(kind) == TRUE

\* line 325: `except Exception` catches every exception but SystemExit
ExceptException(kind) == kind # "SystemExit"

\* lines 196-198: the catalog is asked once; when dataset_exists returns true
\* the run leaves through sys.exit(0) (SystemExit is no Exception, the
\* wrapper's except clause lets it through), otherwise main() goes on
DatasetExists ==
    /\ pc = "query"
    /\ queries' = queries + 1
    /\ \E catalog \in CatalogStates :
           /\ answer' = catalog
           /\ IF Exists(dataset_exists(catalog))
              THEN IF ExceptException("SystemExit")
                   THEN Raise("SystemExit") /\ UNCHANGED exit_status
                   ELSE pc' = "exited" /\ exit_status' = <<0>> /\ NoRaise
              ELSE pc' = "write_aux" /\ NoRaise /\ UNCHANGED exit_status
    /\ UNCHANGED <<input_json, products, filt_info, ifg_list, platform, id,
                   cwd_files, written, stack_files, png_files, invoked, statuses,
                   timesteps, met, stale_dir, made_dirs, prod_dir, todo, removed,
                   alt_files, id2,
                   aux, hashed, second>>

\* the files rendered for the stages (lines 200-221)
AuxFiles == {"ifg.list", "example.rsc", "prepdataxml.py", "prepsbasxml.py",
             "userfn.py"}

\* mutant of FirstIfg: the templates are rendered for every record
FirstIfg_every(i) == TRUE

\* line 207: `if i == 0` under enumerate(ifg_list); positions count from 1 here
FirstIfg(i) == i = 1

\* lines 204-218: one pass of the loop for the key at position i: a line of
\* ifg.list from that key's record and, on the first pass, the three templates
\* from the same record (each open(..., 'w') is one write of the file)
RenderStep(info, l, i, a) ==
    LET rec == info[l[i]]
        line == [a EXCEPT !.ifg_list = Append(@, rec)]
    IN  IF FirstIfg(i)
        THEN [line EXCEPT !.example_rsc = Append(@, rec),
                          !.prepdataxml = Append(@, rec),
                          !.prepsbasxml = Append(@, [nvalid |-> Len(l), rec |-> rec])]
        ELSE line

\* lines 202-218: the loop over enumerate(ifg_list)
RECURSIVE RenderLoop(_, _, _, _)
RenderLoop(info, l, i, a) ==
    IF i > Len(l) THEN a
    ELSE RenderLoop(info, l, i + 1, RenderStep(info, l, i, a))

\* mutant of WriteAux: the product directory is created before the stages
WriteAux_mkdir ==
    /\ pc = "write_aux"
    /\ cwd_files' = cwd_files \cup AuxFiles
    /\ written' = written \cup AuxFiles
    /\ made_dirs' = made_dirs \cup {id}
    /\ aux' = RenderLoop(filt_info.ifg_info, ifg_list, 1, NoAux)
    /\ pc' = "stage1"
    /\ UNCHANGED <<input_json, products, filt_info, ifg_list, platform, id, answer,
                   queries, stack_files, png_files, invoked, statuses, timesteps,
                   met, stale_dir, prod_dir, todo, removed, exc, exc_at, alt_files,
                   exit_status, id2,
                   hashed, second>>

\* lines 200-221: write ifg.list, the three rendered templates and userfn.py
WriteAux ==
    /\ pc = "write_aux"
    /\ cwd_files' = cwd_files \cup AuxFiles
    /\ written' = written \cup AuxFiles
    /\ aux' = RenderLoop(filt_info.ifg_info, ifg_list, 1, NoAux)
    /\ pc' = "stage1"
    /\ NoRaise
    /\ UNCHANGED <<input_json, products, filt_info, ifg_list, platform, id, answer,
                   queries, stack_files, png_files, invoked, statuses, timesteps,
                   met, stale_dir, made_dirs, prod_dir, todo, removed, alt_files,
                   exit_status, id2,
                   hashed, second>>

\* mutant of CalledProcessError: the status is not checked (subprocess.call)
CalledProcessError_unchecked(status) == FALSE

\* subprocess.check_call raises CalledProcessError on a non-zero status
CalledProcessError(status) == status # 0

\* the statuses an external process may return
Statuses == {0, 1}

\* mutant of RunStage: a failed stage is run again
RunStage_retry(name, st, next) ==
    /\ invoked' = Append(invoked, name)
    /\ statuses' = Append(statuses, st)
    /\ IF st # 0 THEN UNCHANGED pc /\ Len(invoked) < 4 /\ NoRaise
       ELSE pc' = next /\ NoRaise

\* one stage: check_call blocks until the process returns its status
RunStage(name, st, next) ==
    /\ invoked' = Append(invoked, name)
    /\ statuses' = Append(statuses, st)
    /\ IF CalledProcessError(st) THEN Raise("CalledProcessError")
       ELSE pc' = next /\ NoRaise

\* lines 224-225: step 1, prepdataxml.py writes data.xml
Stage1 ==
    /\ pc = "stage1"
    /\ \E st \in Statuses :
           /\ RunStage("prepdataxml", st, "stage2")
           /\ cwd_files' = IF st = 0 THEN cwd_files \cup {"data.xml"} ELSE cwd_files
           /\ written' = IF st = 0 THEN written \cup {"data.xml"} ELSE written
    /\ UNCHANGED <<input_json, products, filt_info, ifg_list, platform, id, answer,
                   queries, stack_files, png_files, timesteps, met, stale_dir,
                   made_dirs, prod_dir, todo, removed, alt_files, exit_status, id2,
                   aux, hashed, second>>

\* lines 228-229: step 2, PrepIgramStack writes Stack/RAW-STACK.h5
Stage2 ==
    /\ pc = "stage2"
    /\ \E st \in Statuses :
           /\ RunStage("PrepIgramStack", st, "stage3")
           /\ stack_files' = IF st = 0 THEN stack_files \cup {"RAW-STACK.h5"}
                             ELSE stack_files
    /\ UNCHANGED <<input_json, products, filt_info, ifg_list, platform, id, answer,
                   queries, cwd_files, written, png_files, timesteps, met,
                   stale_dir, made_dirs, prod_dir, todo, removed, alt_files,
                   exit_status, id2,
                   aux, hashed, second>>

\* lines 232-233: step 3, prepsbasxml.py writes sbas.xml
Stage3 ==
    /\ pc = "stage3"
    /\ \E st \in Statuses :
           /\ RunStage("prepsbasxml", st, "stage4")
           /\ cwd_files' = IF st = 0 THEN cwd_files \cup {"sbas.xml"} ELSE cwd_files
           /\ written' = IF st = 0 THEN written \cup {"sbas.xml"} ELSE written
    /\ UNCHANGED <<input_json, products, filt_info, ifg_list, platform, id, answer,
                   queries, stack_files, png_files, timesteps, met, stale_dir,
                   made_dirs, prod_dir, todo, removed, alt_files, exit_status, id2,
                   aux, hashed, second>>

\* the browse images ProcessStack may leave in Figs/Igrams
PngChoices == {{}, {"a.png"}, {"a.png", "b.png"}}

\* lines 236-237: step 4, ProcessStack writes Stack/PROC-STACK.h5 and the pngs
Stage4 ==
    /\ pc = "stage4"
    /\ \E st \in Statuses :
           /\ RunStage("ProcessStack", st, "timesteps")
           /\ IF st = 0
              THEN /\ stack_files' = stack_files \cup {"PROC-STACK.h5"}
                   /\ png_files' \in PngChoices
              ELSE UNCHANGED <<stack_files, png_files>>
    /\ UNCHANGED <<input_json, products, filt_info, ifg_list, platform, id, answer,
                   queries, cwd_files, written, timesteps, met, stale_dir,
                   made_dirs, prod_dir, todo, removed, alt_files, exit_status, id2,
                   aux, hashed, second>>

\* the 'dates' arrays PROC-STACK.h5 may hold (ordinal day counts)
DateChoices == {<<>>, <<1>>, <<1, 2>>, <<1, 1>>}

\* datetime.fromordinal(int(i)).isoformat('T') (line 244)
Isoformat(d) == <<"D">> \o Str(d)

\* lines 240-244: the timesteps of the processed stack
ExtractTimesteps ==
    /\ pc = "timesteps"
    /\ \E times \in DateChoices :
           timesteps' = [i \in 1..Len(times) |-> Isoformat(times[i])]
    /\ pc' = "mkdir"
    /\ NoRaise
    /\ UNCHANGED <<input_json, products, filt_info, ifg_list, platform, id, answer,
                   queries, cwd_files, written, stack_files, png_files, invoked,
                   statuses, met, stale_dir, made_dirs, prod_dir, todo, removed,
                   alt_files, exit_status, id2,
                   aux, hashed, second>>

\* mutant of MakedirsRaises: os.makedirs(prod_dir, exist_ok=True)
MakedirsRaises_exist_ok(exists) == FALSE

\* line 248: os.makedirs(prod_dir, 0o755) raises when the directory exists
MakedirsRaises(exists) == exists

\* lines 247-251: os.makedirs raises when the directory exists; then the glob
\* of Stack/*, in the order the file system lists it
MakeProdDir ==
    /\ pc = "mkdir"
    /\ IF MakedirsRaises(stale_dir)
       THEN Raise("FileExistsError") /\ UNCHANGED <<made_dirs, todo>>
       ELSE /\ made_dirs' = made_dirs \cup {id}
            /\ todo' \in Perms(stack_files)
            /\ pc' = "move_stack"
            /\ NoRaise
    /\ UNCHANGED <<input_json, products, filt_info, ifg_list, platform, id, answer,
                   queries, cwd_files, written, stack_files, png_files, invoked,
                   statuses, timesteps, met, stale_dir, prod_dir, removed,
                   alt_files, exit_status, id2,
                   aux, hashed, second>>

\* pigz replaces a file by its compressed form
Gz(f) == IF f = "RAW-STACK.h5" THEN "RAW-STACK.h5.gz" ELSE "PROC-STACK.h5.gz"

\* lines 252-254: move one Stack file into the product directory and compress
\* it there; a non-zero pigz status raises after the move
MoveStack ==
    /\ pc = "move_stack"
    /\ IF Len(todo) = 0
       THEN /\ pc' = "browse"
            /\ NoRaise
            /\ UNCHANGED <<stack_files, prod_dir, todo>>
       ELSE \E st \in Statuses :
                /\ stack_files' = stack_files \ {todo[1]}
                /\ todo' = Tail(todo)
                /\ IF CalledProcessError(st)
                   THEN /\ prod_dir' = prod_dir \cup {todo[1]}
                        /\ Raise("CalledProcessError")
                   ELSE /\ prod_dir' = prod_dir \cup {Gz(todo[1])}
                        /\ UNCHANGED pc
                        /\ NoRaise
    /\ UNCHANGED <<input_json, products, filt_info, ifg_list, platform, id, answer,
                   queries, cwd_files, written, png_files, invoked, statuses,
                   timesteps, met, stale_dir, made_dirs, removed, alt_files,
                   exit_status, id2,
                   aux, hashed, second>>

\* call_noerr (lines 259-260): runs the resize and swallows its failure
call_noerr(files, ok) == IF ok THEN files \cup {"browse_small.png"} ELSE files

\* mutant of Browse: the resize is run with check_call, its failure raises
Browse_check_call ==
    /\ pc = "browse"
    /\ IF png_files = {}
       THEN Raise("IndexError") /\ UNCHANGED <<prod_dir, todo>>
       ELSE \E ok \in BOOLEAN :
                IF ok
                THEN /\ todo' \in Perms(png_files)
                     /\ prod_dir' = prod_dir \cup {"browse.png", "browse_small.png"}
                     /\ pc' = "move_pngs"
                     /\ NoRaise
                ELSE /\ prod_dir' = prod_dir \cup {"browse.png"}
                     /\ Raise("CalledProcessError")
                     /\ UNCHANGED todo
    /\ UNCHANGED <<input_json, products, filt_info, ifg_list, platform, id, answer,
                   queries, cwd_files, written, stack_files, png_files, invoked,
                   statuses, timesteps, met, stale_dir, made_dirs, removed,
                   alt_files, exit_status, id2,
                   aux, hashed, second>>

\* lines 257-260: glob the pngs (todo keeps the list), copy the first as
\* browse.png (IndexError when there is none) and resize it
Browse ==
    /\ pc = "browse"
    /\ IF png_files = {}
       THEN Raise("IndexError") /\ UNCHANGED <<prod_dir, todo>>
       ELSE /\ todo' \in Perms(png_files)
            /\ \E ok \in BOOLEAN :
                   prod_dir' = call_noerr(prod_dir \cup {"browse.png"}, ok)
            /\ pc' = "move_pngs"
            /\ NoRaise
    /\ UNCHANGED <<input_json, products, filt_info, ifg_list, platform, id, answer,
                   queries, cwd_files, written, stack_files, png_files, invoked,
                   statuses, timesteps, met, stale_dir, made_dirs, removed,
                   alt_files, exit_status, id2,
                   aux, hashed, second>>

\* line 263: move every png into the product directory
MovePngs ==
    /\ pc = "move_pngs"
    /\ prod_dir' = prod_dir \cup Range(todo)
    /\ png_files' = png_files \ Range(todo)
    /\ todo' = <<>>
    /\ pc' = "save_other"
    /\ NoRaise
    /\ UNCHANGED <<input_json, products, filt_info, ifg_list, platform, id, answer,
                   queries, cwd_files, written, stack_files, invoked, statuses,
                   timesteps, met, stale_dir, made_dirs, removed, alt_files,
                   exit_status, id2,
                   aux, hashed, second>>

\* the files moved by lines 267-274
MovedFiles == {"filt_info.pkl", "data.xml", "example.rsc", "ifg.list",
               "prepdataxml.py", "prepsbasxml.py", "sbas.xml", "userfn.py"}

\* mutant of SaveOther: the files are copied, the working directory keeps them
SaveOther_copy ==
    /\ pc = "save_other"
    /\ prod_dir' = prod_dir \cup {"context.json"} \cup MovedFiles
    /\ pc' = "met"
    /\ NoRaise
    /\ UNCHANGED <<input_json, products, filt_info, ifg_list, platform, id, answer,
                   queries, cwd_files, written, stack_files, png_files, invoked,
                   statuses, timesteps, met, stale_dir, made_dirs, todo, removed,
                   alt_files, exit_status, id2,
                   aux, hashed, second>>

\* lines 266-274: copy the request as <id>.context.json, move the other files
SaveOther ==
    /\ pc = "save_other"
    /\ prod_dir' = prod_dir \cup {"context.json"} \cup MovedFiles
    /\ cwd_files' = cwd_files \ MovedFiles
    /\ pc' = "met"
    /\ NoRaise
    /\ UNCHANGED <<input_json, products, filt_info, ifg_list, platform, id, answer,
                   queries, written, stack_files, png_files, invoked, statuses,
                   timesteps, met, stale_dir, made_dirs, todo, removed, alt_files,
                   exit_status, id2,
                   aux, hashed, second>>

\* mutant of MetJson: the timesteps are counted after removing duplicates
MetJson_dedup(info, steps) ==
    LET l == SortedStr(SetToSeq(DOMAIN info))
    IN  [ifg_count |-> Cardinality(DOMAIN info),
         ifgs |-> [i \in 1..Len(l) |-> info[l[i]].product],
         timestep_count |-> Cardinality(Range(steps)),
         timesteps |-> steps]

\* lines 277-300: the met record; the sorted product names of the records
MetJson(info, steps) ==
    LET l == SortedStr(SetToSeq(DOMAIN info))
    IN  [ifg_count |-> Cardinality(DOMAIN info),
         ifgs |-> [i \in 1..Len(l) |-> info[l[i]].product],
         timestep_count |-> Len(steps),
         timesteps |-> steps]

\* lines 276-303: timesteps[0] raises IndexError on an empty list; otherwise
\* <id>.met.json is written into the product directory
WriteMet ==
    /\ pc = "met"
    /\ IF Len(timesteps) = 0
       THEN Raise("IndexError") /\ UNCHANGED <<met, prod_dir>>
       ELSE /\ met' = MetJson(filt_info.ifg_info, timesteps)
            /\ prod_dir' = prod_dir \cup {"met.json"}
            /\ pc' = "dataset"
            /\ NoRaise
    /\ UNCHANGED <<input_json, products, filt_info, ifg_list, platform, id, answer,
                   queries, cwd_files, written, stack_files, png_files, invoked,
                   statuses, timesteps, stale_dir, made_dirs, todo, removed,
                   alt_files, exit_status, id2,
                   aux, hashed, second>>

\* lines 305-316: write_dataset_json writes the dataset descriptor, or raises;
\* then the loop over input_json['products'] starts
WriteDatasetJson ==
    /\ pc = "dataset"
    /\ \/ /\ Raise("DatasetJsonError")
          /\ UNCHANGED <<prod_dir, todo>>
       \/ /\ prod_dir' = prod_dir \cup {"dataset.json"}
          /\ todo' = input_json.products
          /\ pc' = "rm_products"
          /\ NoRaise
    /\ UNCHANGED <<input_json, products, filt_info, ifg_list, platform, id, answer,
                   queries, cwd_files, written, stack_files, png_files, invoked,
                   statuses, timesteps, met, stale_dir, made_dirs, removed,
                   alt_files, exit_status, id2,
                   aux, hashed, second>>

\* mutant of LinksToUnlink: the first symlink is left behind
LinksToUnlink_tail(l) == Tail(l)

\* line 317: the symlinks the second cleanup loop unlinks
LinksToUnlink(l) == l

\* line 316: shutil.rmtree of one input product directory, which may raise;
\* after the last one the loop over ifg_list starts
CleanProducts ==
    /\ pc = "rm_products"
    /\ IF Len(todo) = 0
       THEN /\ todo' = LinksToUnlink(ifg_list)
            /\ pc' = "rm_links"
            /\ NoRaise
            /\ UNCHANGED removed
       ELSE \/ /\ removed' = removed \cup {todo[1]}
               /\ todo' = Tail(todo)
               /\ UNCHANGED pc
               /\ NoRaise
            \/ /\ Raise("OSError")
               /\ UNCHANGED <<removed, todo>>
    /\ UNCHANGED <<input_json, products, filt_info, ifg_list, platform, id, answer,
                   queries, cwd_files, written, stack_files, png_files, invoked,
                   statuses, timesteps, met, stale_dir, made_dirs, prod_dir,
                   alt_files, exit_status, id2,
                   aux, hashed, second>>

\* line 317: os.unlink of one date-pair symlink, which may raise; after the
\* last one main() returns
CleanLinks ==
    /\ pc = "rm_links"
    /\ IF Len(todo) = 0
       THEN /\ pc' = "returned"
            /\ NoRaise
            /\ UNCHANGED <<removed, todo>>
       ELSE \/ /\ removed' = removed \cup {todo[1]}
               /\ todo' = Tail(todo)
               /\ UNCHANGED pc
               /\ NoRaise
            \/ /\ Raise("OSError")
               /\ UNCHANGED <<removed, todo>>
    /\ UNCHANGED <<input_json, products, filt_info, ifg_list, platform, id, answer,
                   queries, cwd_files, written, stack_files, png_files, invoked,
                   statuses, timesteps, met, stale_dir, made_dirs, prod_dir,
                   alt_files, exit_status, id2,
                   aux, hashed, second>>

(***************************************************************************)
(* The __main__ wrapper (lines 320-331).                                   *)
(***************************************************************************)
\* the error files, in the order the except clause writes them
AltFiles == <<"_alt_error.txt", "_alt_traceback.txt">>

\* mutant of UncaughtStatus: the except clause swallows the exception
UncaughtStatus_swallowed == <<0>>

\* the exit status of a process that ends by an uncaught exception
UncaughtStatus == <<1>>

\* lines 326-327: write the error summary
WriteAltError ==
    /\ pc = "except"
    /\ alt_files' = Append(alt_files, AltFiles[1])
    /\ cwd_files' = cwd_files \cup {AltFiles[1]}
    /\ written' = written \cup {AltFiles[1]}
    /\ pc' = "except_tb"
    /\ UNCHANGED <<input_json, products, filt_info, ifg_list, platform, id, answer,
                   queries, stack_files, png_files, invoked, statuses, timesteps,
                   met, stale_dir, made_dirs, prod_dir, todo, removed, exc, exc_at,
                   exit_status, id2,
                   aux, hashed, second>>

\* lines 328-329: write the traceback
WriteAltTraceback ==
    /\ pc = "except_tb"
    /\ alt_files' = Append(alt_files, AltFiles[2])
    /\ cwd_files' = cwd_files \cup {AltFiles[2]}
    /\ written' = written \cup {AltFiles[2]}
    /\ pc' = "reraise"
    /\ UNCHANGED <<input_json, products, filt_info, ifg_list, platform, id, answer,
                   queries, stack_files, png_files, invoked, statuses, timesteps,
                   met, stale_dir, made_dirs, prod_dir, todo, removed, exc, exc_at,
                   exit_status, id2,
                   aux, hashed, second>>

\* line 330: re-raise; the interpreter ends with a non-zero status
ReRaise ==
    /\ pc = "reraise"
    /\ exit_status' = UncaughtStatus
    /\ pc' = "exited"
    /\ UNCHANGED <<input_json, products, filt_info, ifg_list, platform, id, answer,
                   queries, cwd_files, written, stack_files, png_files, invoked,
                   statuses, timesteps, met, stale_dir, made_dirs, prod_dir, todo,
                   removed, exc, exc_at, alt_files, id2,
                   aux, hashed, second>>

\* line 331: main() returned, sys.exit(0)
SysExit ==
    /\ pc = "returned"
    /\ exit_status' = <<0>>
    /\ pc' = "exited"
    /\ UNCHANGED <<input_json, products, filt_info, ifg_list, platform, id, answer,
                   queries, cwd_files, written, stack_files, png_files, invoked,
                   statuses, timesteps, met, stale_dir, made_dirs, prod_dir, todo,
                   removed, exc, exc_at, alt_files, id2,
                   aux, hashed, second>>

Next ==
    \/ LoadRequest
    \/ FilterIfgs
    \/ DumpFiltInfo
    \/ CheckEmpty
    \/ SortKeys
    \/ DeriveIdentity
    \/ DatasetExists
    \/ WriteAux
    \/ Stage1
    \/ Stage2
    \/ Stage3
    \/ Stage4
    \/ ExtractTimesteps
    \/ MakeProdDir
    \/ MoveStack
    \/ Browse
    \/ MovePngs
    \/ SaveOther
    \/ WriteMet
    \/ WriteDatasetJson
    \/ CleanProducts
    \/ CleanLinks
    \/ WriteAltError
    \/ WriteAltTraceback
    \/ ReRaise
    \/ SysExit

Spec == Init /\ [][Next]_vars

(***************************************************************************)
(* Two processes given the same request and the same filter result, each   *)
(* enumerating the records, the center lines and the platform set in its   *)
(* own order (lines 141-193 run twice).                                    *)
(***************************************************************************)
InitId ==
    /\ pc = "id_first"
    /\ input_json \in Requests
    /\ products = <<>>
    /\ filt_info \in {r \in FiltResults :
                          /\ DOMAIN r.ifg_info # {}
                          /\ \A k \in DOMAIN r.ifg_info :
                                 TN_RE(r.ifg_info[k].product) # NoMatch}
    /\ ifg_list = <<>>
    /\ platform = <<>>
    /\ id = NoId
    /\ answer = "unasked"
    /\ queries = 0
    /\ cwd_files = {}
    /\ written = {}
    /\ stack_files = {}
    /\ png_files = {}
    /\ invoked = <<>>
    /\ statuses = <<>>
    /\ timesteps = <<>>
    /\ met = NoMet
    /\ stale_dir = FALSE
    /\ made_dirs = {}
    /\ prod_dir = {}
    /\ todo = <<>>
    /\ removed = {}
    /\ exc = NoExc
    /\ exc_at = "none"
    /\ alt_files = <<>>
    /\ exit_status = Running
    /\ id2 = NoId
    /\ aux = NoAux
    /\ hashed = <<>>
    /\ second = NoSecond

\* the filter result with its center lines enumerated in another order
Reordered(finfo, c) == [finfo EXCEPT !.center_lines_utc = c]

\* lines 141-193 in the first process
FirstProcess ==
    /\ pc = "id_first"
    /\ \E enum \in Perms(DOMAIN filt_info.ifg_info),
          c \in Perms(Range(filt_info.center_lines_utc)) :
           LET l == SortedStr(enum)
           IN  /\ ifg_list' = l
               /\ \E plat \in PlatformLists(filt_info.ifg_info, l) :
                      /\ platform' = plat
                      /\ id' = ProductId(input_json, Reordered(filt_info, c), l, plat)
    /\ pc' = "id_second"
    /\ UNCHANGED <<input_json, products, filt_info, answer, queries, cwd_files,
                   written, stack_files, png_files, invoked, statuses, timesteps,
                   met, stale_dir, made_dirs, prod_dir, todo, removed, exc, exc_at,
                   alt_files, exit_status, id2,
                   aux, hashed, second>>

\* lines 141-193 in the second process, started afresh on the same inputs
SecondProcess ==
    /\ pc = "id_second"
    /\ \E enum \in Perms(DOMAIN filt_info.ifg_info),
          c \in Perms(Range(filt_info.center_lines_utc)) :
           LET l == SortedStr(enum)
           IN  \E plat \in PlatformLists(filt_info.ifg_info, l) :
                   id2' = ProductId(input_json, Reordered(filt_info, c), l, plat)
    /\ pc' = "id_done"
    /\ UNCHANGED <<input_json, products, filt_info, ifg_list, platform, id, answer,
                   queries, cwd_files, written, stack_files, png_files, invoked,
                   statuses, timesteps, met, stale_dir, made_dirs, prod_dir, todo,
                   removed, exc, exc_at, alt_files, exit_status,
                   aux, hashed, second>>

NextId == FirstProcess \/ SecondProcess

SpecId == InitId /\ [][NextId]_vars

(***************************************************************************)
(* Two runs that differ in their thresholds and pixel sizes: what each     *)
(* feeds to the digest (lines 169-184).                                    *)
(***************************************************************************)
\* values a request may give to a threshold or a pixel size
EncValues == {1, 2, 12}

\* the requests for one product and a region of interest, with other
\* thresholds and pixel sizes
EncRequests ==
    {[r EXCEPT !.coherence_threshold = c, !.range_pixel_size = rp,
               !.azimuth_pixel_size = ap] :
         r \in {q \in Requests : Len(q.products) = 1 /\ q.region_of_interest # <<>>},
         c \in EncValues, rp \in EncValues, ap \in EncValues}

InitEnc ==
    /\ pc = "enc_first"
    /\ input_json \in EncRequests
    /\ second \in {[input_json |-> r, hashed |-> <<>>] : r \in EncRequests}
    /\ products = <<>>
    /\ filt_info \in {r \in FiltResults :
                          /\ Cardinality(DOMAIN r.ifg_info) = 1
                          /\ \A k \in DOMAIN r.ifg_info :
                                 TN_RE(r.ifg_info[k].product) # NoMatch}
    /\ ifg_list = <<>>
    /\ platform = <<>>
    /\ id = NoId
    /\ answer = "unasked"
    /\ queries = 0
    /\ cwd_files = {}
    /\ written = {}
    /\ stack_files = {}
    /\ png_files = {}
    /\ invoked = <<>>
    /\ statuses = <<>>
    /\ timesteps = <<>>
    /\ met = NoMet
    /\ stale_dir = FALSE
    /\ made_dirs = {}
    /\ prod_dir = {}
    /\ todo = <<>>
    /\ removed = {}
    /\ exc = NoExc
    /\ exc_at = "none"
    /\ alt_files = <<>>
    /\ exit_status = Running
    /\ id2 = NoId
    /\ aux = NoAux
    /\ hashed = <<>>

\* lines 141-184 in the first run: the key list, the platform list, the bytes
FeedFirst ==
    /\ pc = "enc_first"
    /\ ifg_list' = SortedStr(SetToSeq(DOMAIN filt_info.ifg_info))
    /\ \E plat \in PlatformLists(filt_info.ifg_info, ifg_list') :
           /\ platform' = plat
           /\ hashed' = Hashed(input_json, filt_info, ifg_list', plat)
    /\ pc' = "enc_second"
    /\ UNCHANGED <<input_json, products, filt_info, id, answer, queries, cwd_files,
                   written, stack_files, png_files, invoked, statuses, timesteps,
                   met, stale_dir, made_dirs, prod_dir, todo, removed, exc, exc_at,
                   alt_files, exit_status, id2, aux, second>>

\* lines 169-184 in the second run, on the same filter result, key list and
\* platform list
FeedSecond ==
    /\ pc = "enc_second"
    /\ second' = [second EXCEPT
                      !.hashed = Hashed(second.input_json, filt_info, ifg_list,
                                        platform)]
    /\ pc' = "enc_done"
    /\ UNCHANGED <<input_json, products, filt_info, ifg_list, platform, id, answer,
                   queries, cwd_files, written, stack_files, png_files, invoked,
                   statuses, timesteps, met, stale_dir, made_dirs, prod_dir, todo,
                   removed, exc, exc_at, alt_files, exit_status, id2, aux, hashed>>

NextEnc == FeedFirst \/ FeedSecond

SpecEnc == InitEnc /\ [][NextEnc]_vars

(***************************************************************************)
(* Properties.                                                             *)
(***************************************************************************)
Exited == pc = "exited"
Succeeded == Exited /\ exit_status = <<0>>
Failed == Exited /\ exit_status # <<0>>
Skipped == answer = "exists"
StageFailed == \E i \in DOMAIN statuses : statuses[i] # 0
StageOrder == <<"prepdataxml", "PrepIgramStack", "prepsbasxml", "ProcessStack">>
Sources == Range(products) \cup Range(ifg_list)

\* C1: whenever the catalog answered 'exists', no stage has been invoked, no
\* directory named after the identity has been created, and the process has
\* ended with exit status 0.
C1_IdempotentSkip ==
    Skipped => /\ invoked = <<>>
               /\ id \notin made_dirs
               /\ Succeeded

C1_Witness == Skipped /\ Exited /\ id # NoId /\ Len(ifg_list) = 2

\* C2: whenever one of the four stages returned a non-zero status, the run
\* has created no directory named after the identity and has deleted no input
\* product directory and no date-pair symlink.
C2_AllOrNothing ==
    StageFailed => /\ id \notin made_dirs
                   /\ removed = {}

C2_Witness == StageFailed /\ Exited /\ Len(invoked) = 3

\* C3: two processes given the same request and the same filter result derive
\* the same identity string, whatever the order in which each enumerates the
\* records, the platform set and the center-line times.
C3_Determinism == (id # NoId /\ id2 # NoId) => id = id2

\* C4: the stages invoked are a prefix of the fixed order, each at most once;
\* every stage before the last invoked one returned zero; once a stage has
\* returned non-zero the run is on its way out and ends as failed.
C4_StageSequencing ==
    /\ Len(statuses) = Len(invoked)
    /\ Len(invoked) <= Len(StageOrder)
    /\ invoked = SubSeq(StageOrder, 1, Len(invoked))
    /\ \A i \in 1..(Len(statuses) - 1) : statuses[i] = 0
    /\ StageFailed => /\ pc \in {"except", "except_tb", "reraise", "exited"}
                      /\ exc_at = "stage" \o ToString(Len(invoked))
                      /\ Exited => Failed

C4_Witness == StageFailed /\ Failed /\ Len(invoked) = 2

\* C5 as claimed: a run that went through the pipeline and ended successfully
\* has removed every input product directory and every date-pair symlink; a
\* run that ended as failed, at whatever step, has removed none of them.
C5_CleanupOnSuccessOnly ==
    /\ (Succeeded /\ ~Skipped) => removed = Sources
    /\ Failed => removed = {}

\* C5 as amended: a run that went through the pipeline and ended successfully
\* has removed every input product directory and every date-pair symlink; a
\* run that failed before the cleanup step began, or that was skipped, has
\* removed none; a run that failed inside the cleanup step has removed what
\* the loops had deleted before the failure, and not all of them.
C5_CleanupAmended ==
    /\ (Succeeded /\ ~Skipped) => removed = Sources
    /\ (Failed /\ exc_at \notin {"rm_products", "rm_links"}) => removed = {}
    /\ Skipped => removed = {}
    /\ (Failed /\ exc_at = "rm_products") =>
           (removed \subseteq Range(products) /\ removed # Range(products))
    /\ (Failed /\ exc_at = "rm_links") =>
           (Range(products) \subseteq removed /\ removed \subseteq Sources
            /\ removed # Sources)

C5_Witness ==
    Succeeded /\ ~Skipped /\ Len(products) = 2 /\ Len(ifg_list) = 2
        /\ Cardinality(removed) = 4

\* the filter collaborator has returned its result to this run
FilterReturned == pc \notin {"load", "filter"} /\ exc_at \notin {"load", "filter"}

\* C6: once the filter has returned a result with zero records, the run is
\* at the snapshot or the emptiness test or on its way out with the
\* RuntimeError of line 138; it has derived no key list and no identity,
\* queried no catalog, rendered no auxiliary file and invoked no stage, and
\* when it ends it ends as failed.
C6_EmptyFilterRejection ==
    (FilterReturned /\ DOMAIN filt_info.ifg_info = {}) =>
        /\ pc \in {"dump", "check_empty", "except", "except_tb", "reraise", "exited"}
        /\ pc \notin {"dump", "check_empty"} =>
               (exc = "RuntimeError" /\ exc_at = "check_empty")
        /\ ifg_list = <<>>
        /\ id = NoId
        /\ queries = 0
        /\ answer = "unasked"
        /\ written \cap AuxFiles = {}
        /\ invoked = <<>>
        /\ Exited => Failed

C6_Witness == FilterReturned /\ DOMAIN filt_info.ifg_info = {} /\ Failed

\* C7: whatever step raised, the wrapper has written _alt_error.txt and then
\* _alt_traceback.txt into the working directory by the time it re-raises,
\* and the process does not end with status 0.
C7_ErrorReporting ==
    exc # NoExc =>
        /\ pc \in {"except", "except_tb", "reraise", "exited"}
        /\ pc = "except" => alt_files = <<>>
        /\ pc = "except_tb" => alt_files = <<"_alt_error.txt">>
        /\ pc \in {"reraise", "exited"} =>
               /\ alt_files = <<"_alt_error.txt", "_alt_traceback.txt">>
               /\ {"_alt_error.txt", "_alt_traceback.txt"} \subseteq cwd_files
        /\ Exited => exit_status # <<0>>

C7_Witness == exc # NoExc /\ Exited /\ exc_at = "rm_links"

\* C8 as claimed: a run whose identity is in the catalog ends successfully
\* with no stage invoked and no file written into the working directory.
C8_SkipWritesNothing ==
    (Skipped /\ Exited) => /\ Succeeded
                           /\ invoked = <<>>
                           /\ written = {}
                           /\ cwd_files = {}

\* C8 as amended: a run whose identity is in the catalog ends successfully
\* with no stage invoked; the one file it has written into the working
\* directory is the filter snapshot filt_info.pkl, and it has created no
\* directory and deleted nothing.
C8_SkipWritesSnapshotOnly ==
    (Skipped /\ Exited) => /\ Succeeded
                           /\ invoked = <<>>
                           /\ written = {"filt_info.pkl"}
                           /\ cwd_files = {"filt_info.pkl"}
                           /\ made_dirs = {}
                           /\ removed = {}

C8_Witness == Skipped /\ Succeeded /\ "filt_info.pkl" \in cwd_files

\* the steps of main() before the product directory exists
PreAssemblySteps == {"load", "filter", "dump", "check_empty", "sort_keys",
                     "derive_id", "query", "write_aux", "stage1", "stage2",
                     "stage3", "stage4", "timesteps", "mkdir"}

\* C9 as claimed: a run that ended with a fatal error of any kind has left no
\* directory of its own under the canonical identity name.
C9_NoPartialBundle == Failed => id \notin made_dirs

\* C9 as amended: a run whose fatal error was raised before the product
\* directory was created (request, filter, identity, catalog query, a stage,
\* the timesteps, the creation itself) has created no directory and put
\* nothing under the identity name; a run whose error was raised later
\* (assembly, metadata, cleanup) leaves the directory it created under the
\* canonical name.
C9_NoBundleBeforeAssembly ==
    exc # NoExc =>
        /\ exc_at \in PreAssemblySteps => (made_dirs = {} /\ prod_dir = {})
        /\ exc_at \notin PreAssemblySteps => made_dirs = {id}

C9_Witness == Failed /\ exc_at = "stage4" /\ made_dirs = {}

Field(s, from, len) == SubSeq(s, from, from + len - 1)

MinTime == CHOOSE t \in Range(filt_info.center_lines_utc) :
               \A u \in Range(filt_info.center_lines_utc) : t <= u

MaxTime == CHOOSE t \in Range(filt_info.center_lines_utc) :
               \A u \in Range(filt_info.center_lines_utc) : u <= t

\* the identity read field by field after the literal text 'pre', for the
\* sensor S1 and the track 42 of the records
IdHasForm(pre) ==
    LET a == Len(pre)
    IN  /\ Len(id) = a + 28
        /\ Field(id, 1, a) = pre
        /\ Field(id, a + 1, 2) = <<"S", "1">>
        /\ Field(id, a + 3, 3) = <<"-", "T", "N">>
        /\ Field(id, a + 6, 2) = <<"4", "2">>
        /\ Field(id, a + 8, 1) = <<"-">>
        /\ Field(id, a + 9, 3) = Strftime(MinTime)
        /\ Field(id, a + 12, 2) = <<"Z", "-">>
        /\ Field(id, a + 14, 3) = Strftime(MaxTime)
        /\ Field(id, a + 17, 2) = <<"Z", "-">>
        /\ \A i \in (a + 19)..(a + 23) : id[i] \in Range(HexDigits)
        /\ Field(id, a + 24, 1) = <<"-">>
        /\ Field(id, a + 25, 4) = <<"v", "0", ".", "1">>
        /\ StrLeq(Field(id, a + 9, 3), Field(id, a + 14, 3))

\* C10 as claimed: the identity is exactly sensor-TNtrack-startZ-endZ-hash-
\* version, hash being 5 hex characters and start and end the least and the
\* greatest center-line time, and the directory a successful run creates
\* has that name.
C10_IdentityForm ==
    id # NoId => /\ IdHasForm(<<>>)
                 /\ made_dirs \subseteq {id}
                 /\ (Succeeded /\ ~Skipped) => made_dirs = {id}

\* C10 as amended: the identity is the literal filtered-ifg-stack_ followed
\* by sensor-TNtrack-startZ-endZ-hash-version, hash being 5 hex characters
\* and start and end the least and the greatest center-line time, and the
\* directory a successful run creates has that name.
C10_IdentityFormPrefixed ==
    id # NoId => /\ IdHasForm(<<"f", "i", "l", "t", "e", "r", "e", "d", "-", "i",
                               "f", "g", "-", "s", "t", "a", "c", "k", "_">>)
                 /\ made_dirs \subseteq {id}
                 /\ (Succeeded /\ ~Skipped) => made_dirs = {id}

C10_Witness ==
    Succeeded /\ ~Skipped /\ made_dirs = {id} /\ MinTime < MaxTime


\* the run went past the gate: the catalog did not report the identity
Proceeded == answer \in {"absent", "unavailable"}

\* a run that completed main(): every step succeeded and the process exited 0
Completed == Succeeded /\ ~Skipped

ThumbnailFailed == "browse.png" \in prod_dir /\ "browse_small.png" \notin prod_dir

\* C12: a failed thumbnail resize raises nothing and stops nothing: the run
\* goes on to the move of the pngs, and when no other step fails it ends with
\* every remaining artifact moved, both metadata files written, every source
\* input deleted, exit status 0 and no error file.
C12_ThumbnailNonFatal ==
    ThumbnailFailed =>
        /\ pc # "browse"
        /\ exc_at # "browse"
        /\ (Exited /\ exc = NoExc) =>
               /\ Succeeded
               /\ MovedFiles \cup {"met.json", "dataset.json"} \subseteq prod_dir
               /\ png_files = {}
               /\ removed = Sources
               /\ alt_files = <<>>

C12_Witness == ThumbnailFailed /\ Succeeded /\ removed = Sources /\ removed # {}

\* C13 as claimed: after a completed run the bundle holds the met file, its
\* ifg_count is the number of filtered records, its ifgs list has that length,
\* and the length of its timesteps list and its timestep_count are the number
\* of distinct time entries of the processed stack.
C13_MetadataCounts ==
    Completed =>
        /\ "met.json" \in prod_dir
        /\ met.ifg_count = Cardinality(DOMAIN filt_info.ifg_info)
        /\ Len(met.ifgs) = met.ifg_count
        /\ Len(met.timesteps) = Cardinality(Range(timesteps))
        /\ met.timestep_count = Cardinality(Range(timesteps))

\* C13 amended: the same, the timesteps counted entry by entry: the length of
\* the timesteps list and timestep_count are the number of time entries of
\* the processed stack, an entry that occurs twice counting twice.
C13_MetadataCountsPerEntry ==
    Completed =>
        /\ "met.json" \in prod_dir
        /\ met.ifg_count = Cardinality(DOMAIN filt_info.ifg_info)
        /\ Len(met.ifgs) = met.ifg_count
        /\ met.timesteps = timesteps
        /\ met.timestep_count = Len(timesteps)

C13_Witness ==
    /\ Completed
    /\ Len(timesteps) = 2
    /\ Cardinality(Range(timesteps)) = 1
    /\ met.ifg_count = 2

C15_GateOrdering ==
    /\ queries <= 1
    /\ queries = 1 => (FilterReturned /\ id # NoId /\ hashed # <<>>)
    /\ queries = 0 => (written \cap AuxFiles = {} /\ invoked = <<>>)

C15_Witness == queries = 1 /\ AuxFiles \subseteq written /\ Len(invoked) = 2

\* the least key of the filtered result
LeastKey(info) == CHOOSE k \in DOMAIN info : \A j \in DOMAIN info : StrLeq(k, j)

\* C16: once the auxiliary files are rendered, ifg.list holds one line per
\* filtered record, in ascending key order, and example.rsc, prepdataxml.py
\* and prepsbasxml.py were each written once, from the record of the least
\* key, prepsbasxml.py with nvalid equal to the number of filtered records.
C16_AuxRendering ==
    AuxFiles \subseteq written =>
        LET info == filt_info.ifg_info
            first == info[LeastKey(info)]
        IN  /\ Len(aux.ifg_list) = Cardinality(DOMAIN info)
            /\ \E l \in Perms(DOMAIN info) :
                   /\ \A i \in 1..(Len(l) - 1) : StrLess(l[i], l[i + 1])
                   /\ \A i \in 1..Len(l) : aux.ifg_list[i] = info[l[i]]
            /\ aux.example_rsc = <<first>>
            /\ aux.prepdataxml = <<first>>
            /\ aux.prepsbasxml = <<[nvalid |-> Cardinality(DOMAIN info), rec |-> first]>>

C16_Witness ==
    /\ AuxFiles \subseteq written
    /\ Len(aux.ifg_list) = 2
    /\ aux.prepsbasxml[1].nvalid = 2

\* C17: an error file exists only when an exception of main() reached the
\* except clause of the wrapper; a run that ended with status 0, completed or
\* skipped, wrote neither file.
C17_ErrorFilesOnlyOnFailure ==
    /\ alt_files # <<>> => (exc # NoExc /\ ~Skipped /\ (Exited => Failed))
    /\ (Succeeded \/ Skipped) =>
           /\ alt_files = <<>>
           /\ Range(AltFiles) \cap (written \cup cwd_files) = {}

C17_Witness == Skipped /\ Succeeded /\ alt_files = <<>> /\ "filt_info.pkl" \in written

\* C18: whenever an input product directory or a date-pair symlink has been
\* deleted, all four stages returned zero, the bundle directory exists, and
\* the met file and the dataset descriptor are in it.
C18_SourceDeletionLast ==
    removed # {} =>
        /\ statuses = <<0, 0, 0, 0>>
        /\ id \in made_dirs
        /\ {"met.json", "dataset.json"} \subseteq prod_dir

C18_Witness == Cardinality(removed) = 1 /\ pc = "rm_products"

\* C19: when a directory named after the identity exists beforehand, the run
\* creates no directory, puts nothing into it and deletes no source input;
\* if the catalog does not report the identity it does not end with status 0,
\* and when its four stages have returned zero it fails at os.makedirs.
C19_ExistingDirNotReused ==
    stale_dir =>
        /\ made_dirs = {}
        /\ prod_dir = {}
        /\ removed = {}
        /\ pc \in PreAssemblySteps \cup {"except", "except_tb", "reraise", "exited"}
        /\ Proceeded => ~Succeeded
        /\ exc_at = "mkdir" => (exc = "FileExistsError" /\ statuses = <<0, 0, 0, 0>>)
        /\ (Proceeded /\ Exited /\ statuses = <<0, 0, 0, 0>>) =>
               (Failed /\ exc_at = "mkdir")

C19_Witness ==
    /\ stale_dir
    /\ Proceeded
    /\ Failed
    /\ exc_at = "mkdir"
    /\ invoked = StageOrder


\* the parameters a run hashes (lines 171-184), as a tuple of values
HashedTuple(req, finfo, l, plat) ==
    <<Envelope(req), req.ref_point, req.ref_box_num_pixels,
      req.coherence_threshold, req.range_pixel_size, req.azimuth_pixel_size,
      req.inc, req.netramp, req.gpsramp, req.filt,
      int(TrackText(finfo.ifg_info, l)), finfo.ifg_info[l[1]].sensor, plat, l>>

\* C20: two runs whose hashed parameter tuples differ in any component never
\* feed the same concatenated byte string to the digest.
C20_InjectiveEncoding ==
    (pc = "enc_done" /\ HashedTuple(input_json, filt_info, ifg_list, platform)
                           # HashedTuple(second.input_json, filt_info, ifg_list,
                                         platform))
        => hashed # second.hashed

====
